---- MODULE Spec2Model ----
(***************************************************************************)
(* A model of modmesh's hierarchical call profiler                          *)
(* (cpp/modmesh/toggle/callprofiler.hpp): the CallProfiler with its         *)
(* explicit stack of active callers and its RadixTree of CallerProfile     *)
(* payloads, the CallProfilerProbe scope guard and the report printer.     *)
(*                                                                         *)
(* RadixTree.hpp is not part of the sources at hand; the tree operations   *)
(* (entry, get_current_node, move_current_to_parent, reset, children) are  *)
(* modelled from the design document's contract of the calling-context     *)
(* tree.  A tree is an arena of nodes addressed by index, the root at      *)
(* index 1; each node holds its name, the index of its parent (prev), the  *)
(* indices of its children in creation order and its payload.              *)
(***************************************************************************)
EXTENDS Integers, Sequences, FiniteSets, TLC

VARIABLES
    m_callStack,   \* CallProfiler::m_callStack: sequence of CallerInfo, top last
    m_radixTree,   \* CallProfiler::m_radixTree: [nodes, current]
    clock,         \* last reading of high_resolution_clock::now(), in ns
    outstream,     \* the lines the last print_profiling_result wrote
    lastOp,        \* history: the operation that produced this state, the
                   \* number of invocations active when it was called, and
                   \* how it was called
    result,        \* how that operation ended: "ok", "unbalanced_call", "crash"
    pending,       \* history: the caller's open invocations, innermost last
    completed,     \* history: call path -> number of completed invocations
    floorSum,      \* history: call path -> sum, over its completed invocations,
                   \* of the whole milliseconds each one took
    nStart,        \* history: start_caller calls since construction / reset
    nEnd,          \* history: end_caller calls since construction / reset
    probes,        \* live CallProfilerProbe objects, innermost scope last
    owners,        \* history: for each entry of m_callStack, the thread that
                   \* pushed it
    tpath,         \* history: for each thread, the names of its own open
                   \* invocations, innermost last
    buffer,        \* a BufferExpander: [m_data, m_end, m_end_cap], the two
                   \* pointers as offsets from m_begin
    bufOp          \* history: the last operation on the buffer, its argument,
                   \* how it ended and the byte it returned

vars == <<m_callStack, m_radixTree, clock, outstream, lastOp, result,
          pending, completed, floorSum, nStart, nEnd, probes, owners, tpath,
          buffer, bufOp>>

\* the state of the profiler and of its clients
profilerVars == <<m_callStack, m_radixTree, clock, outstream, lastOp, result,
                  pending, completed, floorSum, nStart, nEnd, probes, owners, tpath>>

\* the threads that share the one profiler
Threads == {1, 2}

----------------------------------------------------------------------------
(* Bounds of the exploration *)

\* caller names the client passes to start_caller
Names == {"A", "B"}
\* deepest nesting of open invocations the client produces
MaxDepth == 2
\* largest length and index given to the buffer
MaxBytes == 3
\* most start_caller calls between two resets
MaxStarts == 3
\* one step of the clock, in nanoseconds (0.6 ms: two steps make 1.2 ms)
TickNs == 600000
\* the clock is explored up to MaxTicks steps
MaxTicks == 2
\* a representative non-zero content of uninitialised memory, read as ms
UninitMs == 7

\* std::chrono: nanoseconds per millisecond (duration_cast<milliseconds>)
NsPerMs == 1000000

Range(s) == {s[i] : i \in DOMAIN s}
Front(s) == SubSeq(s, 1, Len(s) - 1)

\* the values now() may return next: the clock never goes back
ClockReadings == {clock + d : d \in {0, TickNs}} \cap (0..(MaxTicks * TickNs))

----------------------------------------------------------------------------
(* CallerProfile and CallerInfo *)

\* What an uninitialised std::chrono::milliseconds may hold.
Indeterminate == {0, UninitMs}

\* A default-constructed CallerProfile: callerName is the empty string,
\* callCount has the initialiser 0, totalTime has no initialiser.
DefaultCallerProfile ==
    {[callerName |-> "", totalTime |-> g, callCount |-> 0] : g \in Indeterminate}

CallerInfo(callerName, startTime) ==
    [callerName |-> callerName, startTime |-> startTime]

\* What reading the top of an empty std::stack may yield.
GarbageInfo == {[callerName |-> "?", elapsed |-> g] : g \in Indeterminate}

----------------------------------------------------------------------------
(* RadixTree<CallerProfile>, from the design document *)

Root == 1

RadixTreeNode(name, prev, data) ==
    [name |-> name, prev |-> prev, children |-> <<>>, data |-> data]

\* RadixTree(): a bare root, the cursor on it
NewRadixTree(data) ==
    [nodes |-> <<RadixTreeNode("", 0, data)>>, current |-> Root]

get_current_node(rt) == rt.current

children(rt, n) == rt.nodes[n].children

\* the child of node n named name, or 0
get_child(rt, n, name) ==
    LET hit == {c \in Range(children(rt, n)) : rt.nodes[c].name = name}
    IN  IF hit = {} THEN 0 ELSE CHOOSE c \in hit : TRUE

\* entry(name): find the child of the cursor node named name, create it with
\* an empty payload if absent, and move the cursor to it
entry(rt, name, data) ==
    LET child == get_child(rt, rt.current, name)
        id == Len(rt.nodes) + 1
    IN  IF child # 0
        THEN [rt EXCEPT !.current = child]
        ELSE [nodes |-> Append([rt.nodes EXCEPT ![rt.current].children = Append(@, id)],
                               RadixTreeNode(name, rt.current, data)),
              current |-> id]

\* move_current_to_parent() at the root is the unbalanced-call error
AtRoot(rt) == rt.current = Root

move_current_to_parent(rt) ==
    IF AtRoot(rt) THEN rt ELSE [rt EXCEPT !.current = rt.nodes[rt.current].prev]

\* reset(): all nodes discarded, a fresh root, the cursor on it
reset(rt, data) == NewRadixTree(data)

----------------------------------------------------------------------------
(* Derived views of the tree *)

NodeIds(rt) == 1..Len(rt.nodes)

RECURSIVE Depth(_, _)
Depth(rt, n) == IF n = Root THEN 0 ELSE 1 + Depth(rt, rt.nodes[n].prev)

\* the names from the root down to node n
RECURSIVE Path(_, _)
Path(rt, n) ==
    IF n = Root THEN <<>> ELSE Append(Path(rt, rt.nodes[n].prev), rt.nodes[n].name)

StackNames(stack) == [i \in DOMAIN stack |-> stack[i].callerName]

----------------------------------------------------------------------------
(* CallProfiler *)

\* m_callStack.push({callerName, startTime})
Push(stack, callerName, startTime) == Append(stack, CallerInfo(callerName, startTime))

\* a faulty top(): the oldest entry, as of a queue
Bottom(stack) == stack[1]

\* m_callStack.top() on a non-empty stack
Top(stack) == stack[Len(stack)]

\* a faulty pop(): nothing is removed
PopKeeps(stack) == stack

\* m_callStack.pop() on a non-empty stack
Pop(stack) == SubSeq(stack, 1, Len(stack) - 1)

\* duration_cast<milliseconds>(endTime - startTime): truncation toward zero
ElapsedMs(endTime, startTime) == (endTime - startTime) \div NsPerMs

\* a faulty update: the count is set, not incremented
AggregateSetsCount(profile, elapsedTime, callerName) ==
    [callerName |-> callerName,
     totalTime |-> profile.totalTime + elapsedTime,
     callCount |-> 1]

\* the update of the payload in end_caller
Aggregate(profile, elapsedTime, callerName) ==
    [callerName |-> callerName,
     totalTime |-> profile.totalTime + elapsedTime,
     callCount |-> profile.callCount + 1]

\* a faulty update, as of a flat profiler: every node that carries the name
\* of the cursor node is aggregated
UpdateByName(rt, elapsedTime, callerName) ==
    [rt EXCEPT !.nodes = [n \in DOMAIN rt.nodes |->
        IF rt.nodes[n].name = rt.nodes[rt.current].name
        THEN [rt.nodes[n] EXCEPT !.data =
                [callerName |-> callerName,
                 totalTime |-> rt.nodes[n].data.totalTime + elapsedTime,
                 callCount |-> rt.nodes[n].data.callCount + 1]]
        ELSE rt.nodes[n]]]

\* a faulty update: the time and the call are also added to the parent of
\* the cursor node
UpdateCurrentAndParent(rt, elapsedTime, callerName) ==
    [rt EXCEPT !.nodes = [n \in DOMAIN rt.nodes |->
        IF n = rt.current \/ n = rt.nodes[rt.current].prev
        THEN [rt.nodes[n] EXCEPT !.data =
                [callerName |-> callerName,
                 totalTime |-> rt.nodes[n].data.totalTime + elapsedTime,
                 callCount |-> rt.nodes[n].data.callCount + 1]]
        ELSE rt.nodes[n]]]

\* a faulty update: the cursor is moved before the payload is fetched, so the
\* parent of the node that ends is aggregated
UpdateParent(rt, elapsedTime, callerName) ==
    [rt EXCEPT !.nodes[rt.nodes[rt.current].prev].data =
        [callerName |-> callerName,
         totalTime |-> @.totalTime + elapsedTime,
         callCount |-> @.callCount + 1]]

\* the tree with the payload of the cursor node aggregated
UpdateCurrent(rt, elapsedTime, callerName) ==
    [rt EXCEPT !.nodes[get_current_node(rt)].data = Aggregate(@, elapsedTime, callerName)]

\* history: one more completed invocation of call path p
Completed(c, p) ==
    [q \in (DOMAIN c) \cup {p} |->
        IF q = p THEN (IF p \in DOMAIN c THEN c[p] ELSE 0) + 1 ELSE c[q]]

NoneCompleted == [p \in {} |-> 0]

\* history: v more whole milliseconds spent in call path p
Spent(f, p, v) ==
    [q \in (DOMAIN f) \cup {p} |->
        IF q = p THEN (IF p \in DOMAIN f THEN f[p] ELSE 0) + v ELSE f[q]]
CompletedCount(p) == IF p \in DOMAIN completed THEN completed[p] ELSE 0

Running == result = "ok"

\* a faulty start_caller: the entry is pushed, the tree is not entered
StartCallerNoEntry(callerName, startTime, data) ==
    /\ Running
    /\ clock' = startTime
    /\ m_callStack' = Append(m_callStack, CallerInfo(callerName, startTime))
    /\ m_radixTree' = m_radixTree
    /\ result' = "ok"
    /\ pending' = Append(pending, [name |-> callerName, startTime |-> startTime,
                                   node |-> get_current_node(m_radixTree)])
    /\ nStart' = nStart + 1
    /\ UNCHANGED <<completed, floorSum, nEnd>>

\* start_caller(callerName); startTime is the clock reading, data the
\* payload a newly created node is constructed with
StartCaller(callerName, startTime, data) ==
    /\ Running
    /\ clock' = startTime
    /\ m_callStack' = Push(m_callStack, callerName, startTime)
    /\ m_radixTree' = entry(m_radixTree, callerName, data)
    /\ result' = "ok"
    /\ pending' = Append(pending, [name |-> callerName, startTime |-> startTime,
                                   node |-> get_current_node(m_radixTree')])
    /\ nStart' = nStart + 1
    /\ UNCHANGED <<completed, floorSum, nEnd>>

\* end_caller() with a pending start
EndCallerPending(endTime) ==
    /\ m_callStack # <<>>
    /\ clock' = endTime
    /\ LET elapsedTime == ElapsedMs(endTime, Top(m_callStack).startTime)
           callerName == Top(m_callStack).callerName
       IN  m_radixTree' = move_current_to_parent(
                              UpdateCurrent(m_radixTree, elapsedTime, callerName))
    /\ m_callStack' = Pop(m_callStack)
    /\ result' = IF AtRoot(m_radixTree) THEN "unbalanced_call" ELSE "ok"
    /\ completed' = Completed(completed, [i \in DOMAIN pending |-> pending[i].name])
    /\ floorSum' = Spent(floorSum, [i \in DOMAIN pending |-> pending[i].name],
                         (endTime - pending[Len(pending)].startTime) \div NsPerMs)
    /\ pending' = Front(pending)

\* end_caller() on an empty stack: top() and pop() of an empty std::stack are
\* undefined.  Either the process dies at the read, or the read yields
\* garbage that is aggregated into the cursor node before the tree refuses
\* to move above the root.
EndCallerEmpty(endTime) ==
    /\ m_callStack = <<>>
    /\ \/ /\ result' = "crash"
          /\ UNCHANGED <<m_radixTree, clock>>
       \/ /\ clock' = endTime
          /\ \E g \in GarbageInfo :
                m_radixTree' = move_current_to_parent(
                                   UpdateCurrent(m_radixTree, g.elapsed, g.callerName))
          /\ result' = IF AtRoot(m_radixTree) THEN "unbalanced_call" ELSE "ok"
    /\ UNCHANGED <<m_callStack, completed, floorSum, pending>>

EndCaller(endTime) ==
    /\ Running
    /\ \/ EndCallerPending(endTime)
       \/ EndCallerEmpty(endTime)
    /\ nEnd' = nEnd + 1
    /\ UNCHANGED nStart

\* a faulty loop: "if" for "while", one entry is popped
ClearStackOnce(stack) == IF stack = <<>> THEN stack ELSE SubSeq(stack, 1, Len(stack) - 1)

\* while (!m_callStack.empty()) m_callStack.pop();
RECURSIVE ClearStack(_)
ClearStack(stack) == IF stack = <<>> THEN stack ELSE ClearStack(Pop(stack))

\* a faulty reset(): the stack is cleared, the tree is kept
ResetKeepsTree(data) ==
    /\ Running
    /\ m_callStack' = <<>>
    /\ m_radixTree' = m_radixTree
    /\ result' = "ok"
    /\ pending' = <<>>
    /\ completed' = NoneCompleted
    /\ floorSum' = NoneCompleted
    /\ nStart' = 0
    /\ nEnd' = 0
    /\ UNCHANGED clock

\* reset()
Reset(data) ==
    /\ Running
    /\ m_callStack' = ClearStack(m_callStack)
    /\ m_radixTree' = reset(m_radixTree, data)
    /\ result' = "ok"
    /\ pending' = <<>>
    /\ completed' = NoneCompleted
    /\ floorSum' = NoneCompleted
    /\ nStart' = 0
    /\ nEnd' = 0
    /\ UNCHANGED clock

----------------------------------------------------------------------------
(* The report *)

HeaderLine(depth) ==
    [indent |-> 2 * depth, kind |-> "header", callerName |-> "Profiling Result",
     totalTime |-> 0, callCount |-> 0]

EntryLine(depth, profile) ==
    [indent |-> 2 * depth, kind |-> "entry", callerName |-> profile.callerName,
     totalTime |-> profile.totalTime, callCount |-> profile.callCount]

RECURSIVE _print_profiling_result(_, _, _)
RECURSIVE PrintChildren(_, _, _, _)
RECURSIVE PrintChildrenReversed(_, _, _, _)

\* a faulty loop: the children are visited last to first
PrintChildrenReversed(rt, kids, i, depth) ==
    IF i > Len(kids) THEN <<>>
    ELSE PrintChildrenReversed(rt, kids, i + 1, depth)
            \o _print_profiling_result(rt, kids[i], depth)

\* the lines of the children kids[i..] of a node printed at depth
PrintChildren(rt, kids, i, depth) ==
    IF i > Len(kids) THEN <<>>
    ELSE _print_profiling_result(rt, kids[i], depth) \o PrintChildren(rt, kids, i + 1, depth)

_print_profiling_result(rt, node, depth) ==
    <<IF depth = 0 THEN HeaderLine(depth) ELSE EntryLine(depth, rt.nodes[node].data)>>
        \o PrintChildren(rt, children(rt, node), 1, depth + 1)

\* a faulty print: the cursor is put on the root to print the whole tree
PrintFromRootMovesCursor ==
    /\ Running
    /\ outstream' = _print_profiling_result(m_radixTree, Root, 0)
    /\ m_radixTree' = [m_radixTree EXCEPT !.current = Root]
    /\ result' = "ok"
    /\ UNCHANGED <<m_callStack, clock, pending, completed, floorSum, nStart, nEnd>>

\* print_profiling_result(outstream)
PrintProfilingResult ==
    /\ Running
    /\ outstream' = _print_profiling_result(m_radixTree, get_current_node(m_radixTree), 0)
    /\ result' = "ok"
    /\ UNCHANGED <<m_callStack, m_radixTree, clock, pending, completed, floorSum,
                   nStart, nEnd>>

----------------------------------------------------------------------------
(* CallProfilerProbe *)

\* how control may leave the scope that holds a probe
ExitPaths == {"normal", "return", "unwind"}

\* CallProfilerProbe(profiler, callerName)
CallProfilerProbeCtor(callerName, startTime, data) ==
    /\ StartCaller(callerName, startTime, data)
    /\ probes' = Append(probes, callerName)

\* a faulty release: nothing is recorded when the scope is left by unwinding
DtorSkipsOnUnwind(exitPath, endTime) ==
    /\ probes # <<>>
    /\ IF exitPath = "unwind"
       THEN Running /\ UNCHANGED <<m_callStack, m_radixTree, clock, result,
                                   pending, completed, floorSum, nStart, nEnd>>
       ELSE EndCaller(endTime)
    /\ probes' = Front(probes)

\* ~CallProfilerProbe(), run when control leaves the scope by exitPath
CallProfilerProbeDtor(exitPath, endTime) ==
    /\ probes # <<>>
    /\ EndCaller(endTime)
    /\ probes' = Front(probes)

----------------------------------------------------------------------------
(* BufferExpander (cpp/modmesh/buffer/BufferExpander.hpp).  reserve() is    *)
(* only declared there; it is modelled from the design document: a growing *)
(* buffer that keeps its contents.                                         *)

\* the int8_t values explored
ByteValues == {0, 1}

\* BufferExpander(ctor_passkey): no storage, the three pointers null
EmptyBuffer == [m_data |-> <<>>, m_end |-> 0, m_end_cap |-> 0]

\* size(): m_end - m_begin
size(b) == b.m_end

\* capacity(): m_end_cap - m_begin
capacity(b) == b.m_end_cap

\* reserve(cap): storage of at least cap bytes; the bytes up to size() are
\* kept, the new ones are whatever fresh holds
reserve(b, cap, fresh) ==
    IF cap <= capacity(b) THEN b
    ELSE [m_data |-> [i \in 1..cap |-> IF i <= size(b) THEN b.m_data[i] ELSE fresh[i]],
          m_end |-> b.m_end,
          m_end_cap |-> cap]

\* expand(length)
expand(b, length, fresh) == [reserve(b, length, fresh) EXCEPT !.m_end = length]

\* a faulty check: the index equal to size() passes
validate_range_off_by_one(b, it) == it > b.m_end

\* validate_range(it): TRUE when it throws std::out_of_range
validate_range(b, it) == it >= size(b)

\* data(it), data()[it]: the byte at m_begin + it; outside the storage the
\* read is undefined and yields any byte
data_at(b, it) == IF it < Len(b.m_data) THEN {b.m_data[it + 1]} ELSE ByteValues

BufferRunning == bufOp.result # "crash"

BufOp(op, it, res, value) == [op |-> op, index |-> it, result |-> res, value |-> value]

\* expand(length) by the owner of the buffer
Expand(length) ==
    /\ BufferRunning
    /\ \E fresh \in [1..length -> ByteValues] : buffer' = expand(buffer, length, fresh)
    /\ bufOp' = BufOp("expand", length, "ok", 0)

\* int8_t at(size_t it) const
At(it) ==
    /\ BufferRunning
    /\ IF validate_range(buffer, it)
       THEN bufOp' = BufOp("at", it, "out_of_range", 0)
       ELSE \E v \in data_at(buffer, it) : bufOp' = BufOp("at", it, "ok", v)
    /\ UNCHANGED buffer

\* int8_t & at(size_t it), and a store of v through the reference
AtStore(it, v) ==
    /\ BufferRunning
    /\ IF validate_range(buffer, it)
       THEN /\ bufOp' = BufOp("at_store", it, "out_of_range", 0)
            /\ UNCHANGED buffer
       ELSE /\ bufOp' = BufOp("at_store", it, "ok", v)
            /\ buffer' = IF it < Len(buffer.m_data)
                         THEN [buffer EXCEPT !.m_data[it + 1] = v]
                         ELSE buffer

\* int8_t operator[](size_t it) const: no check; outside the storage the
\* read is undefined: the process dies or any byte comes back
Subscript(it) ==
    /\ BufferRunning
    /\ \/ \E v \in data_at(buffer, it) : bufOp' = BufOp("subscript", it, "ok", v)
       \/ /\ it >= Len(buffer.m_data)
          /\ bufOp' = BufOp("subscript", it, "crash", 0)
    /\ UNCHANGED buffer

----------------------------------------------------------------------------
(* The client: direct, well-bracketed use of the four operations.  The sink *)
(* of a report is a stream of the caller's, handed to                      *)
(* print_profiling_result and dropped before the caller's next call.       *)

Op(op, via) == [op |-> op, active |-> Len(m_callStack), via |-> via]

Init ==
    /\ m_callStack = <<>>
    /\ m_radixTree \in {NewRadixTree(d) : d \in DefaultCallerProfile}
    /\ clock = 0
    /\ outstream = <<>>
    /\ lastOp = [op |-> "init", active |-> 0, via |-> "call"]
    /\ result = "ok"
    /\ pending = <<>>
    /\ completed = NoneCompleted
    /\ floorSum = NoneCompleted
    /\ nStart = 0
    /\ nEnd = 0
    /\ probes = <<>>
    /\ owners = <<>>
    /\ tpath = [t \in Threads |-> <<>>]
    /\ buffer = EmptyBuffer
    /\ bufOp = BufOp("construct", 0, "ok", 0)

CanStart == Len(m_callStack) < MaxDepth /\ nStart < MaxStarts

CallStart ==
    /\ CanStart
    /\ \E name \in Names, t \in ClockReadings, d \in DefaultCallerProfile :
          StartCaller(name, t, d)
    /\ lastOp' = Op("start_caller", "call")
    /\ outstream' = <<>>
    /\ UNCHANGED <<probes, owners, tpath, buffer, bufOp>>

CallEnd ==
    /\ m_callStack # <<>>
    /\ \E t \in ClockReadings : EndCaller(t)
    /\ lastOp' = Op("end_caller", "call")
    /\ outstream' = <<>>
    /\ UNCHANGED <<probes, owners, tpath, buffer, bufOp>>

CallReset ==
    /\ \E d \in DefaultCallerProfile : Reset(d)
    /\ lastOp' = Op("reset", "call")
    /\ outstream' = <<>>
    /\ UNCHANGED <<probes, owners, tpath, buffer, bufOp>>

CallPrint ==
    /\ PrintProfilingResult
    /\ lastOp' = Op("print", "call")
    /\ UNCHANGED <<probes, owners, tpath, buffer, bufOp>>

Next == CallStart \/ CallEnd \/ CallReset \/ CallPrint

Spec == Init /\ [][Next]_vars

----------------------------------------------------------------------------
(* The client that also calls end_caller() with no start pending *)

CallEndUnbalanced ==
    /\ m_callStack = <<>>
    /\ \E t \in ClockReadings : EndCaller(t)
    /\ lastOp' = Op("end_caller", "call")
    /\ outstream' = <<>>
    /\ UNCHANGED <<probes, owners, tpath, buffer, bufOp>>

NextUnbalanced == Next \/ CallEndUnbalanced

SpecUnbalanced == Init /\ [][NextUnbalanced]_vars

----------------------------------------------------------------------------
(* The client that brackets its scopes with probes only *)

ScopeEnter ==
    /\ CanStart
    /\ \E name \in Names, t \in ClockReadings, d \in DefaultCallerProfile :
          CallProfilerProbeCtor(name, t, d)
    /\ lastOp' = Op("start_caller", "probe")
    /\ outstream' = <<>>
    /\ UNCHANGED <<owners, tpath, buffer, bufOp>>

ScopeExit ==
    \E exitPath \in ExitPaths :
        /\ \E t \in ClockReadings : CallProfilerProbeDtor(exitPath, t)
        /\ lastOp' = Op("end_caller", exitPath)
        /\ outstream' = <<>>
        /\ UNCHANGED <<owners, tpath, buffer, bufOp>>

ScopePrint ==
    /\ PrintProfilingResult
    /\ lastOp' = Op("print", "call")
    /\ UNCHANGED <<probes, owners, tpath, buffer, bufOp>>

NextProbe == ScopeEnter \/ ScopeExit \/ ScopePrint

SpecProbe == Init /\ [][NextProbe]_vars

----------------------------------------------------------------------------
(* The client that brackets its scopes with probes and calls reset() while *)
(* probes are alive                                                        *)

ScopeEnterBounded ==
    /\ Len(probes) < MaxDepth
    /\ ScopeEnter

NextProbeReset == ScopeEnterBounded \/ ScopeExit \/ ScopePrint \/ CallReset

SpecProbeReset == Init /\ [][NextProbeReset]_vars

----------------------------------------------------------------------------
(* Two threads that share the profiler without a lock.  Each thread runs a  *)
(* balanced sequence of its own: it ends only invocations it has started.  *)
(* The calls of the two threads interleave as whole calls; the unlocked    *)
(* code also allows interleavings inside a call, which add behaviours and  *)
(* take none of these away.                                                *)

ThreadStart(t) ==
    /\ CanStart
    /\ \E name \in Names, time \in ClockReadings, d \in DefaultCallerProfile :
          /\ StartCaller(name, time, d)
          /\ tpath' = [tpath EXCEPT ![t] = Append(@, name)]
    /\ owners' = Append(owners, t)
    /\ lastOp' = [op |-> "start_caller", active |-> Len(m_callStack), via |-> "thread",
                  thread |-> t]
    /\ outstream' = <<>>
    /\ UNCHANGED <<probes, buffer, bufOp>>

ThreadEnd(t) ==
    /\ tpath[t] # <<>>
    /\ \E time \in ClockReadings : EndCaller(time)
    /\ tpath' = [tpath EXCEPT ![t] = Front(@)]
    /\ owners' = Front(owners)
    /\ lastOp' = [op |-> "end_caller", active |-> Len(m_callStack), via |-> "thread",
                  thread |-> t, owner |-> owners[Len(owners)], ownPath |-> tpath[t],
                  nodePath |-> Path(m_radixTree, m_radixTree.current)]
    /\ outstream' = <<>>
    /\ UNCHANGED <<probes, buffer, bufOp>>

NextThreads == \E t \in Threads : ThreadStart(t) \/ ThreadEnd(t)

SpecThreads == Init /\ [][NextThreads]_vars

----------------------------------------------------------------------------
(* The client of a BufferExpander *)

BufExpand == (\E length \in 0..MaxBytes : Expand(length)) /\ UNCHANGED profilerVars

BufAt == (\E it \in 0..MaxBytes : At(it)) /\ UNCHANGED profilerVars

BufAtStore ==
    (\E it \in 0..MaxBytes, v \in ByteValues : AtStore(it, v)) /\ UNCHANGED profilerVars

BufSubscript == (\E it \in 0..MaxBytes : Subscript(it)) /\ UNCHANGED profilerVars

NextBuffer == BufExpand \/ BufAt \/ BufAtStore \/ BufSubscript

SpecBuffer == Init /\ [][NextBuffer]_vars

----------------------------------------------------------------------------
(* Views used by the properties *)

Nodes == m_radixTree.nodes
Cursor == m_radixTree.current
Profile(n) == m_radixTree.nodes[n].data

\* the call path of the caller's open invocations
PendingPath == [i \in DOMAIN pending |-> pending[i].name]

\* the nodes of the subtree of n in depth-first pre-order, children in
\* creation order
RECURSIVE PreOrder(_, _)
RECURSIVE PreOrderAll(_, _, _)
PreOrderAll(rt, kids, i) ==
    IF i > Len(kids) THEN <<>> ELSE PreOrder(rt, kids[i]) \o PreOrderAll(rt, kids, i + 1)
PreOrder(rt, n) == <<n>> \o PreOrderAll(rt, rt.nodes[n].children, 1)

\* the report of the whole tree: the header for the root, then one line for
\* every other node, indented by two spaces for each level below the root
WholeTreeReport(rt) ==
    LET order == PreOrder(rt, Root)
    IN  [i \in DOMAIN order |->
            IF i = 1
            THEN [indent |-> 0, kind |-> "header", callerName |-> "Profiling Result",
                  totalTime |-> 0, callCount |-> 0]
            ELSE [indent |-> 2 * Depth(rt, order[i]), kind |-> "entry",
                  callerName |-> rt.nodes[order[i]].data.callerName,
                  totalTime |-> rt.nodes[order[i]].data.totalTime,
                  callCount |-> rt.nodes[order[i]].data.callCount]]

----------------------------------------------------------------------------
(* Properties *)

\* C1: end_caller() called with an empty stack fails with the
\* unbalanced-call condition and leaves the stack, the cursor and every
\* node's count and time as they were.
C1_EndOnEmptyStackFailsCleanly ==
    [][(lastOp'.op = "end_caller" /\ m_callStack = <<>>) =>
          /\ result' = "unbalanced_call"
          /\ m_callStack' = m_callStack
          /\ m_radixTree'.current = m_radixTree.current
          /\ Len(m_radixTree'.nodes) = Len(m_radixTree.nodes)
          /\ \A n \in NodeIds(m_radixTree) :
                /\ m_radixTree'.nodes[n].data.callCount = m_radixTree.nodes[n].data.callCount
                /\ m_radixTree'.nodes[n].data.totalTime = m_radixTree.nodes[n].data.totalTime
      ]_vars

\* C2: whenever the caller's starts and ends are balanced (no invocation
\* is open), the stack is empty and the cursor is at the root.
C2_BalancedReturnsToRoot ==
    pending = <<>> => (m_callStack = <<>> /\ Cursor = Root)

C2_Witness ==
    /\ lastOp.op = "end_caller"
    /\ pending = <<>>
    /\ \E p \in DOMAIN completed : Len(p) = 2
    /\ m_callStack = <<>>
    /\ Cursor = Root

\* C3: the stack is as deep as the cursor is below the root, and the names
\* on the stack, bottom to top, are the names on the path from the root to
\* the cursor node.
C3_StackCursorLockStep ==
    /\ Len(m_callStack) = Depth(m_radixTree, Cursor)
    /\ StackNames(m_callStack) = Path(m_radixTree, Cursor)

C3_Witness ==
    /\ Len(m_callStack) = 2
    /\ StackNames(m_callStack) = <<"A", "B">>
    /\ Path(m_radixTree, Cursor) = <<"A", "B">>
    /\ Len(Nodes) > 3

\* C4: a call path completed N >= 1 times since the last reset has exactly
\* one node, whose invocation count is N; no node has two children of the
\* same name.
C4_CountIsNumberOfCompletedPairs ==
    /\ \A p \in DOMAIN completed :
          /\ Cardinality({n \in NodeIds(m_radixTree) : Path(m_radixTree, n) = p}) = 1
          /\ \A n \in NodeIds(m_radixTree) :
                Path(m_radixTree, n) = p => Profile(n).callCount = completed[p]
    /\ \A n \in NodeIds(m_radixTree) :
          \A i, j \in DOMAIN Nodes[n].children :
             i # j => Nodes[Nodes[n].children[i]].name # Nodes[Nodes[n].children[j]].name

\* start("f"); end(); start("f"); end(): one node "f" with count 2
C4_Witness ==
    /\ Len(Nodes) = 2
    /\ Nodes[2].name = "A"
    /\ Profile(2).callCount = 2
    /\ completed = (<<"A">> :> 2)
    /\ pending = <<>>

\* C5: an end_caller adds one to the count of the node whose path from the
\* root is the call path of the invocation that ends and changes the payload
\* of no other node; a start_caller changes no payload; distinct nodes have
\* distinct paths.
C5_PathsNeverMerge ==
    [][/\ lastOp'.op = "end_caller" =>
            /\ Len(m_radixTree'.nodes) = Len(Nodes)
            /\ \A n \in NodeIds(m_radixTree) :
                  IF Path(m_radixTree, n) = PendingPath
                  THEN m_radixTree'.nodes[n].data.callCount = Profile(n).callCount + 1
                  ELSE m_radixTree'.nodes[n].data = Profile(n)
       /\ lastOp'.op = "start_caller" =>
            \A n \in NodeIds(m_radixTree) : m_radixTree'.nodes[n].data = Profile(n)
       /\ \A n, m \in NodeIds(m_radixTree') :
            n # m => Path(m_radixTree', n) # Path(m_radixTree', m)
      ]_vars

\* the same name completed under two different parents: two nodes
C5_Witness ==
    \E n, m \in NodeIds(m_radixTree) :
        /\ n # m
        /\ Nodes[n].name = Nodes[m].name
        /\ Nodes[n].prev # Nodes[m].prev
        /\ Profile(n).callCount = 1
        /\ Profile(m).callCount = 1
        /\ CompletedCount(Path(m_radixTree, n)) = 1
        /\ CompletedCount(Path(m_radixTree, m)) = 1

\* C6: every end_caller pops the entry of the caller's most recent open
\* start, and adds the time elapsed since that start, in whole
\* milliseconds, and one call to the node that start entered, whose payload
\* then carries the name given to that start.
C6_LifoPairing ==
    [][lastOp'.op = "end_caller" =>
          LET inv == pending[Len(pending)]
          IN  /\ m_callStack[Len(m_callStack)] =
                    [callerName |-> inv.name, startTime |-> inv.startTime]
              /\ m_callStack' = SubSeq(m_callStack, 1, Len(m_callStack) - 1)
              /\ m_radixTree'.nodes[inv.node].data =
                    [callerName |-> inv.name,
                     totalTime |-> Profile(inv.node).totalTime
                                     + ((clock' - inv.startTime) \div NsPerMs),
                     callCount |-> Profile(inv.node).callCount + 1]
      ]_vars

\* the inner of two nested invocations has ended; the outer one has been
\* open for more than a millisecond
C6_Witness ==
    /\ lastOp.op = "end_caller"
    /\ lastOp.active = 2
    /\ Len(m_callStack) = 1
    /\ clock - m_callStack[1].startTime > NsPerMs
    /\ \E p \in DOMAIN completed : Len(p) = 2

\* C7: after reset(), whatever the state it was called in, the stack is
\* empty and the tree is a bare root with a default payload and the cursor
\* on it, as after construction.
C7_ResetGivesFreshProfiler ==
    lastOp.op = "reset" =>
        /\ m_callStack = <<>>
        /\ Len(Nodes) = 1
        /\ Nodes[Root].children = <<>>
        /\ Nodes[Root].prev = 0
        /\ Profile(Root).callCount = 0
        /\ Profile(Root).callerName = ""
        /\ Cursor = Root

\* reset() was called with two invocations active
C7_Witness ==
    /\ lastOp.op = "reset"
    /\ lastOp.active = 2
    /\ m_callStack = <<>>
    /\ Len(Nodes) = 1

\* C8: print_profiling_result, also between a start and its end, writes
\* the header for the root and then one line for every node of the whole
\* tree below the root, in depth-first pre-order, each indented by two
\* spaces per level below the root.
C8_PrintWalksWholeTree ==
    lastOp.op = "print" => outstream = WholeTreeReport(m_radixTree)

\* C9: the construction of a probe calls start_caller once and no
\* end_caller, its destruction calls end_caller once and no start_caller,
\* whatever the path on which the scope is left; when no probe is alive the
\* calls of end_caller equal those of start_caller and the stack is empty.
C9_ProbePairsStartAndEnd ==
    [][/\ Len(probes') = Len(probes) + 1 => (nStart' = nStart + 1 /\ nEnd' = nEnd)
       /\ Len(probes') = Len(probes) - 1 => (nEnd' = nEnd + 1 /\ nStart' = nStart)
       /\ probes' = <<>> => (nEnd' = nStart' /\ m_callStack' = <<>>)
      ]_vars

\* two nested probe scopes have been left, the last one by unwinding
C9_Witness ==
    /\ probes = <<>>
    /\ lastOp.via = "unwind"
    /\ nStart >= 2
    /\ nEnd = nStart
    /\ \E p \in DOMAIN completed : Len(p) = 2
    /\ m_callStack = <<>>

\* C10: between resets no node's cumulative time decreases, and a node
\* against which no end_caller has completed has time zero and count zero.
C10_TimeMonotoneAndZeroUntilCompleted ==
    [][/\ lastOp'.op # "reset" =>
            \A n \in NodeIds(m_radixTree) :
                m_radixTree'.nodes[n].data.totalTime >= Profile(n).totalTime
       /\ \A n \in NodeIds(m_radixTree') \ {Root} :
            Path(m_radixTree', n) \notin DOMAIN completed' =>
                /\ m_radixTree'.nodes[n].data.totalTime = 0
                /\ m_radixTree'.nodes[n].data.callCount = 0
      ]_vars

\* C13: start_caller(name) adds one node when the cursor node has no child
\* named name and none when it has one; no node has two children of the
\* same name.
C13_NodeCreatedIffNameIsNew ==
    [][lastOp'.op = "start_caller" =>
          LET name == pending'[Len(pending')].name
              known == \E c \in Range(Nodes[Cursor].children) : Nodes[c].name = name
          IN  /\ known => Len(m_radixTree'.nodes) = Len(Nodes)
              /\ ~known => Len(m_radixTree'.nodes) = Len(Nodes) + 1
              /\ \A n \in NodeIds(m_radixTree') :
                    \A i, j \in DOMAIN m_radixTree'.nodes[n].children :
                       i # j => m_radixTree'.nodes[m_radixTree'.nodes[n].children[i]].name
                                  # m_radixTree'.nodes[m_radixTree'.nodes[n].children[j]].name
      ]_vars

\* a start has re-entered a node that had completed a call before
C13_Witness ==
    /\ lastOp.op = "start_caller"
    /\ Cursor # Root
    /\ Profile(Cursor).callCount >= 1
    /\ Len(Nodes) = 2

\* the nodes other than the cursor node, and everything of the cursor node
\* but its payload, are the same in the next state
OnlyCursorPayloadChanges ==
    /\ Len(m_radixTree'.nodes) = Len(Nodes)
    /\ \A n \in NodeIds(m_radixTree) :
          IF n = Cursor
          THEN /\ m_radixTree'.nodes[n].name = Nodes[n].name
               /\ m_radixTree'.nodes[n].prev = Nodes[n].prev
               /\ m_radixTree'.nodes[n].children = Nodes[n].children
          ELSE m_radixTree'.nodes[n] = Nodes[n]

\* C14: start_caller creates at most one node and changes the count and
\* time of no existing node; end_caller changes the payload of the cursor
\* node only and keeps the set of nodes; only reset removes nodes.
C14_NodesChangeOnlyByStartAndEnd ==
    [][/\ lastOp'.op = "start_caller" =>
            /\ Len(m_radixTree'.nodes) \in {Len(Nodes), Len(Nodes) + 1}
            /\ \A n \in NodeIds(m_radixTree) :
                  /\ m_radixTree'.nodes[n].data.callCount = Profile(n).callCount
                  /\ m_radixTree'.nodes[n].data.totalTime = Profile(n).totalTime
       /\ lastOp'.op = "end_caller" => OnlyCursorPayloadChanges
       /\ lastOp'.op # "reset" =>
            /\ Len(m_radixTree'.nodes) >= Len(Nodes)
            /\ \A n \in NodeIds(m_radixTree) :
                  /\ m_radixTree'.nodes[n].name = Nodes[n].name
                  /\ m_radixTree'.nodes[n].prev = Nodes[n].prev
      ]_vars

\* an inner invocation has ended in a tree of three nodes or more
C14_Witness ==
    /\ lastOp.op = "end_caller"
    /\ lastOp.active = 2
    /\ Len(Nodes) >= 3
    /\ Cursor # Root
    /\ Profile(Cursor).callCount = 0

\* C15: print_profiling_result leaves the tree, the cursor and the stack as
\* they were.
C15_PrintChangesNothing ==
    [][lastOp'.op = "print" =>
          /\ m_radixTree' = m_radixTree
          /\ m_callStack' = m_callStack
      ]_vars

\* a report was printed with an invocation open
C15_Witness ==
    /\ lastOp.op = "print"
    /\ Len(m_callStack) = 2
    /\ Cursor # Root
    /\ Len(outstream) >= 1

\* C16: the tree has one root; the payload of the root is never aggregated
\* into (its count stays 0, its time and name stay as constructed); a report
\* starts with the one header line and no node printed as an entry is the
\* root.
C16_RootIsNeverProfiled ==
    [][/\ {n \in NodeIds(m_radixTree') : m_radixTree'.nodes[n].prev = 0} = {Root}
       /\ m_radixTree'.nodes[Root].data.callCount = 0
       /\ lastOp'.op # "reset" => m_radixTree'.nodes[Root].data = Profile(Root)
       /\ lastOp'.op = "print" =>
            LET printed == PreOrder(m_radixTree, Cursor)
            IN  /\ Len(outstream') = Len(printed)
                /\ outstream'[1].kind = "header"
                /\ \A i \in 2..Len(printed) :
                      /\ outstream'[i].kind = "entry"
                      /\ printed[i] # Root
      ]_vars

\* a call directly below the root has ended and the tree was then printed
C16_Witness ==
    /\ lastOp.op = "print"
    /\ Cursor = Root
    /\ Len(outstream) >= 3
    /\ Profile(Root).callCount = 0
    /\ \E p \in DOMAIN completed : Len(p) = 1

\* the children of node n by the order of their creation (node indices grow
\* with creation)
RECURSIVE Ascending(_)
Ascending(S) ==
    IF S = {} THEN <<>>
    ELSE LET least == CHOOSE x \in S : \A y \in S : x <= y
         IN  <<least>> \o Ascending(S \ {least})

CreatedUnder(rt, n) == Ascending({c \in NodeIds(rt) : rt.nodes[c].prev = n})

\* the lines of the subtree of n, its own line at depth, children by creation
RECURSIVE ReportByCreation(_, _, _)
RECURSIVE ReportByCreationAll(_, _, _, _)
ReportByCreationAll(rt, kids, i, depth) ==
    IF i > Len(kids) THEN <<>>
    ELSE ReportByCreation(rt, kids[i], depth) \o ReportByCreationAll(rt, kids, i + 1, depth)
ReportByCreation(rt, n, depth) ==
    <<IF depth = 0
      THEN [indent |-> 0, kind |-> "header", callerName |-> "Profiling Result",
            totalTime |-> 0, callCount |-> 0]
      ELSE [indent |-> 2 * depth, kind |-> "entry",
            callerName |-> rt.nodes[n].data.callerName,
            totalTime |-> rt.nodes[n].data.totalTime,
            callCount |-> rt.nodes[n].data.callCount]>>
        \o ReportByCreationAll(rt, CreatedUnder(rt, n), 1, depth + 1)

\* C18: in a report the children of every printed node follow each other
\* in the order in which they were created under that node.
C18_ChildrenInCreationOrder ==
    lastOp.op = "print" => outstream = ReportByCreation(m_radixTree, Cursor, 0)

\* "B" was created before "A" under the root, "A" was called more often, and
\* the report lists "B" first
C18_Witness ==
    /\ lastOp.op = "print"
    /\ Cursor = Root
    /\ Len(outstream) = 3
    /\ outstream[2].callerName = "B"
    /\ outstream[2].callCount = 1
    /\ outstream[3].callerName = "A"
    /\ outstream[3].callCount = 2

\* C17: the cumulative time of a node is the sum, over the completed calls
\* of its path, of each call's elapsed time cut to whole milliseconds.
C17_TimeIsSumOfPerCallFloors ==
    \A n \in NodeIds(m_radixTree) \ {Root} :
        Profile(n).totalTime =
            (IF Path(m_radixTree, n) \in DOMAIN floorSum
             THEN floorSum[Path(m_radixTree, n)] ELSE 0)

\* C19: after a reset() with probes alive, the end_caller of a probe's
\* release that finds the stack empty is reported as the unbalanced-call
\* error, changes no node and leaves the cursor on the root.
C19_ReleaseAfterResetFailsCleanly ==
    [][(lastOp'.op = "end_caller" /\ probes # <<>> /\ m_callStack = <<>>) =>
          /\ result' = "unbalanced_call"
          /\ m_radixTree'.nodes = Nodes
          /\ m_radixTree'.current = Root
      ]_vars

\* C11: with two threads on one profiler, an end_caller pops the top entry
\* of the shared stack and aggregates into the node at the shared cursor
\* under the name of that entry, whichever thread calls it; while the other
\* thread has an invocation open, the path of the node aggregated into is
\* not the calling thread's own call path.
C11_EndTakesSharedTopWhoeverCalls ==
    [][lastOp'.op = "end_caller" =>
          /\ m_callStack' = SubSeq(m_callStack, 1, Len(m_callStack) - 1)
          /\ m_radixTree'.nodes[Cursor].data.callCount = Profile(Cursor).callCount + 1
          /\ m_radixTree'.nodes[Cursor].data.callerName =
                m_callStack[Len(m_callStack)].callerName
          /\ (\E u \in Threads \ {lastOp'.thread} : tpath[u] # <<>>) =>
                Path(m_radixTree, Cursor) # tpath[lastOp'.thread]
      ]_vars

\* thread 1 started "A", thread 2 started "B"; thread 1 ended first: it
\* popped the entry thread 2 pushed and aggregated into the node A/B
C11_Witness ==
    /\ lastOp.op = "end_caller"
    /\ lastOp.thread = 1
    /\ lastOp.owner = 2
    /\ lastOp.ownPath = <<"A">>
    /\ lastOp.nodePath = <<"A", "B">>
    /\ CompletedCount(<<"A", "B">>) = 1
    /\ tpath[2] = <<"B">>
    /\ m_callStack # <<>>
    /\ m_callStack[1].callerName = "A"

\* C12 as stated: every indexed access, by at() or by operator[], at an
\* index not below size() fails with out_of_range and leaves the buffer as
\* it was; below size() it succeeds.
C12_IndexedAccessIsChecked ==
    [][bufOp'.op \in {"at", "at_store", "subscript"} =>
          IF bufOp'.index >= buffer.m_end
          THEN bufOp'.result = "out_of_range" /\ buffer' = buffer
          ELSE bufOp'.result = "ok"
      ]_vars

\* C12 as amended: at() at an index not below size() fails with
\* out_of_range and leaves size, capacity and contents as they were; at()
\* below size() succeeds, returns the byte at the index and changes neither
\* size nor capacity; operator[] never reports a bounds violation.
C12_AtIsCheckedSubscriptIsNot ==
    [][/\ bufOp'.op \in {"at", "at_store"} =>
            IF bufOp'.index >= buffer.m_end
            THEN bufOp'.result = "out_of_range" /\ buffer' = buffer
            ELSE /\ bufOp'.result = "ok"
                 /\ buffer'.m_end = buffer.m_end
                 /\ buffer'.m_end_cap = buffer.m_end_cap
                 /\ bufOp'.op = "at" =>
                       /\ buffer' = buffer
                       /\ bufOp'.value = buffer.m_data[bufOp'.index + 1]
       /\ bufOp'.op = "subscript" => bufOp'.result # "out_of_range"
      ]_vars

\* at(size()) has failed on a buffer of two bytes in a storage of three
C12_Witness ==
    /\ bufOp.op = "at"
    /\ bufOp.result = "out_of_range"
    /\ bufOp.index = 2
    /\ buffer.m_end = 2
    /\ buffer.m_end_cap = 3

====
